---- MODULE Spec2Model ----
(***************************************************************************)
(* A model of windows/runner/wechat_vfs.cpp: the read-only SQLite VFS      *)
(* shim that decrypts database pages on the fly.                           *)
(*                                                                         *)
(* Characters are their ASCII codes, byte strings are sequences of         *)
(* integers 0..255.  Memory buffers of PAGE_SIZE bytes are kept as the     *)
(* list of the region writes made to them (a "layer" per xRead, memcpy,    *)
(* memset or decrypt); ByteAt computes any single byte from the layers,    *)
(* so a buffer is never expanded to 4096 values.                           *)
(***************************************************************************)
EXTENDS Integers, Sequences, FiniteSets, TLC

(* ---------------------------------------------------------------------- *)
(* Program constants                                                      *)
(* ---------------------------------------------------------------------- *)
SQLITE_OK == 0
SQLITE_ERROR == 1
SQLITE_READONLY == 8
PAGE_SIZE == 4096
SALT_SIZE == 16
IV_SIZE == 16
RESERVE_SIZE == 80
\* bytes of key material BCryptGenerateSymmetricKey consumes
AES_KEY_BYTES == 32
\* a null pointer
NULL == 0

\* statuses the platform file system may answer besides SQLITE_OK
\* (SQLITE_CANTOPEN, SQLITE_IOERR_READ, SQLITE_IOERR_SHORT_READ)
SQLITE_CANTOPEN == 2 * 7
SQLITE_IOERR_READ == 10 + 256
SQLITE_IOERR_SHORT_READ == 10 + 2 * 256

(* ---------------------------------------------------------------------- *)
(* Bounds of the model                                                    *)
(* ---------------------------------------------------------------------- *)
\* file handles the engine holds at once
MaxHandles == 2
\* distinct addresses a registry node can be allocated at
MaxNodes == 2
\* whole pages in every database file on disk
NumPages == 2
\* threads of the engine
NumThreads == 2

Handles == 1..MaxHandles
NodeIds == 1..MaxNodes
Threads == 1..NumThreads
\* the thread the single-threaded runs call from
MainThread == CHOOSE t \in Threads : \A u \in Threads : t <= u

\* values an indeterminate byte (uninitialized or freed memory) may hold
Indeterminate == {0, 255}

(* ---------------------------------------------------------------------- *)
(* Paths                                                                  *)
(* ---------------------------------------------------------------------- *)
\* a null zName
NoName == <<>>
\* "A\B", "a/b", "a\B", "a/c"
PathNames == { <<65, 92, 66>>, <<97, 47, 98>>, <<97, 92, 66>>, <<97, 47, 99>> }

normalize_char_keepcase(c) ==
    IF c = 92 THEN 47 ELSE c

normalize_char_keepsep(c) ==
    IF c >= 65 /\ c <= 90 THEN c - 65 + 97 ELSE c

normalize_char(c) ==
    LET c1 == IF c = 92 THEN 47 ELSE c
    IN  IF c1 >= 65 /\ c1 <= 90 THEN c1 - 65 + 97 ELSE c1

normalize_path(path) ==
    [i \in 1..Len(path) |-> normalize_char(path[i])]

(* ---------------------------------------------------------------------- *)
(* Hex decoding                                                           *)
(* ---------------------------------------------------------------------- *)
HexVal(c) ==
    IF c >= 48 /\ c <= 57 THEN c - 48
    ELSE IF c >= 97 /\ c <= 102 THEN c - 87
    ELSE IF c >= 65 /\ c <= 70 THEN c - 55
    ELSE -1

\* sscanf_s(hex + i, "%2x", &byte): at most two hex digits are converted;
\* when the first character is no hex digit nothing is assigned and byte
\* keeps its indeterminate value g.  (i is 1-based here.)
sscanf_2x(hex, i, g) ==
    IF HexVal(hex[i]) < 0 THEN g
    ELSE IF i + 1 <= Len(hex) /\ HexVal(hex[i + 1]) >= 0
         THEN 16 * HexVal(hex[i]) + HexVal(hex[i + 1])
         ELSE HexVal(hex[i])

RECURSIVE hex_loop(_, _, _, _)
hex_loop(hex, i, bytes, g) ==
    IF i > Len(hex) THEN bytes
    ELSE hex_loop(hex, i + 2, Append(bytes, sscanf_2x(hex, i, g) % 256), g)

hex_to_bytes(hex, g) == hex_loop(hex, 1, <<>>, g)

\* 64 hex digits "11..11" and "aBaB..aB": well-formed 32-byte keys
KeyHex1 == [i \in 1..(2 * AES_KEY_BYTES) |-> 49]
KeyHex2 == [i \in 1..(2 * AES_KEY_BYTES) |-> IF i % 2 = 1 THEN 97 ELSE 66]
\* "1f", "abc", "zz": short, odd-length and non-hex
ShortHex == <<49, 102>>
OddHex == <<97, 98, 99>>
BadHex == <<122, 122>>

(* ---------------------------------------------------------------------- *)
(* std::map<std::string, EncryptionKeys>                                  *)
(* ---------------------------------------------------------------------- *)
\* A map is a function from its keys to [node, encKey, macKey]; node is the
\* address of the map node that holds the value.
MapFind(m, k) == IF k \in DOMAIN m THEN m[k].node ELSE NULL

MapLiveNodes(m) == { m[k].node : k \in DOMAIN m }

\* std::map::insert semantics: an existing element is kept
MapAssign_insert(m, k, n, keys) ==
    IF k \in DOMAIN m THEN m
    ELSE [x \in DOMAIN m \cup {k} |->
            IF x = k THEN [node |-> n, encKey |-> keys.encKey, macKey |-> keys.macKey]
            ELSE m[x]]

\* m[k] = keys: operator[] finds or creates the node, then the value is assigned
MapAssign(m, k, n, keys) ==
    [x \in DOMAIN m \cup {k} |->
        IF x = k THEN [node |-> n, encKey |-> keys.encKey, macKey |-> keys.macKey]
        ELSE m[x]]

\* erase(k) that leaves the element in place
MapErase_noop(m, k) == m

MapErase(m, k) == [x \in DOMAIN m \ {k} |-> m[x]]

MapSize(m) == Cardinality(DOMAIN m)

\* the record a keys pointer refers to; a pointer to an erased node reads
\* freed memory: every byte of it is indeterminate (an empty vector here,
\* read through KeyByte)
DerefEncKey(m, n) ==
    IF n \in MapLiveNodes(m)
    THEN m[CHOOSE k \in DOMAIN m : m[k].node = n].encKey
    ELSE <<>>

(* ---------------------------------------------------------------------- *)
(* The platform file system (the delegate) and the files on disk          *)
(* ---------------------------------------------------------------------- *)
\* the platform treats names that differ in case or separator as one file;
\* a null name opens a temporary file
DiskFileOf(zName) == normalize_path(zName)

DiskFiles == { DiskFileOf(n) : n \in PathNames \cup {NoName} }

InitialSize(f) == IF f = NoName THEN 0 ELSE NumPages * PAGE_SIZE

\* the byte stored at position pos of file f (files are never written by the
\* shim, so the content is a fixed function of the file and the position)
DiskByte(f, pos) ==
    (f[Len(f)] + 7 * pos + 3 * (pos \div 16) + 11 * (pos \div PAGE_SIZE)) % 256

\* what xRead of the platform leaves at position pos: bytes past the end of
\* the file are zero-filled (a short read)
DiskByteOrZero(f, fsize, pos) == IF pos < fsize THEN DiskByte(f, pos) ELSE 0

\* status of the platform's xRead; forced is an I/O failure of the device
real_xRead_rc(fsize, iAmt, iOfst, forced) ==
    IF forced # SQLITE_OK THEN forced
    ELSE IF iOfst + iAmt <= fsize THEN SQLITE_OK
    ELSE SQLITE_IOERR_SHORT_READ

RealReadFills(rc) == rc \in {SQLITE_OK, SQLITE_IOERR_SHORT_READ}

\* the platform's xWrite and xTruncate on the file sizes d
real_xWrite(d, f, iAmt, iOfst) ==
    [d EXCEPT ![f] = IF iOfst + iAmt > d[f] THEN iOfst + iAmt ELSE d[f]]

real_xTruncate(d, f, size) == [d EXCEPT ![f] = size]

(* ---------------------------------------------------------------------- *)
(* Page buffers                                                           *)
(* ---------------------------------------------------------------------- *)
\* the marker of a byte of the caller's buffer that no one wrote
Untouched == 0 - 1

Covers(L, i) == L.lo <= i /\ i < L.lo + L.len

\* the part of layer x in front of index a, and the part from index b on;
\* at is the index into the layer's content of its first byte
FrontPart(x, a) ==
    IF x.lo < a THEN << [x EXCEPT !.len = IF x.lo + x.len < a THEN x.len ELSE a - x.lo] >>
    ELSE << >>

BackPart(x, b) ==
    IF x.lo + x.len > b
    THEN LET d == IF b > x.lo THEN b - x.lo ELSE 0
         IN  << [x EXCEPT !.lo = x.lo + d, !.len = x.len - d, !.at = x.at + d] >>
    ELSE << >>

RECURSIVE Fronts(_, _)
Fronts(buf, a) ==
    IF buf = << >> THEN << >> ELSE FrontPart(Head(buf), a) \o Fronts(Tail(buf), a)

RECURSIVE Backs(_, _)
Backs(buf, b) ==
    IF buf = << >> THEN << >> ELSE BackPart(Head(buf), b) \o Backs(Tail(buf), b)

\* a write of region L into buffer buf: what it overwrites is cut out of the
\* older layers; the layers stay disjoint and ordered by position
WriteLayer(buf, L) == Fronts(buf, L.lo) \o << L >> \o Backs(buf, L.lo + L.len)

\* new unsigned char[PAGE_SIZE]: allocated, contents indeterminate
NewBuffer == << [lo |-> 0, len |-> PAGE_SIZE, kind |-> "uninit", at |-> 0] >>

RECURSIVE XorBits(_, _, _)
XorBits(a, b, n) ==
    IF n = 0 THEN 0
    ELSE (((a % 2) + (b % 2)) % 2) + 2 * XorBits(a \div 2, b \div 2, n - 1)

Xor(a, b) == XorBits(a, b, 8)

\* byte i (1-based) of the AES_KEY_BYTES bytes read at key.data(): bytes past
\* the vector's end are indeterminate
KeyByte(key, i, g) == IF i <= Len(key) THEN key[i] ELSE g

RECURSIVE ByteAt(_, _, _)
RECURSIVE LayerByte(_, _, _)

\* the block cipher's inverse on the block that holds ciphertext byte j,
\* at that byte: it depends on the key and on the bytes of the block
BlockDecryptByte(src, srcoff, key, j, g) ==
    LET blk == (j \div IV_SIZE) * IV_SIZE
        t == j % IV_SIZE
    IN  ( ByteAt(src, srcoff + j, g)
        + 3 * ByteAt(src, srcoff + blk + ((t + 1) % IV_SIZE), g)
        + KeyByte(key, t + 1, g) + 5 * KeyByte(key, t + 1 + IV_SIZE, g) ) % 256

\* byte j of BCryptDecrypt's output in CBC mode: the decrypted block xor the
\* previous ciphertext block, or the IV for the first block
aes_plain_byte(src, srcoff, ivoff, key, j, g) ==
    LET prev == IF j < IV_SIZE THEN ByteAt(src, ivoff + j, g)
                ELSE ByteAt(src, srcoff + j - IV_SIZE, g)
    IN  Xor(BlockDecryptByte(src, srcoff, key, j, g), prev)

\* byte j of layer L
LayerByte(L, j, g) ==
    CASE L.kind = "uninit" -> g
      [] L.kind = "zero"   -> 0
      [] L.kind = "file"   -> DiskByteOrZero(L.file, L.fsize, L.at + j)
      [] L.kind = "memcpy" -> ByteAt(L.src, L.at + j, g)
      [] L.kind = "plain"  -> aes_plain_byte(L.src, L.srcoff, L.ivoff, L.key, L.at + j, g)

\* the byte at index i of a buffer: that of the layer that covers it; an
\* index outside the buffer reads indeterminate memory
ByteAt(buf, i, g) ==
    LET idx == { k \in 1..Len(buf) : Covers(buf[k], i) }
    IN  IF idx = {} THEN g
        ELSE LET L == buf[CHOOSE k \in idx : TRUE] IN LayerByte(L, i - L.lo, g)

Bytes(buf, from, n, g) == [k \in 1..n |-> ByteAt(buf, from + k - 1, g)]

(* ---------------------------------------------------------------------- *)
(* The engine's list of registered file systems (its head is the default)  *)
(* ---------------------------------------------------------------------- *)
vfsUnlink(list, v) ==
    LET Other(x) == x # v IN SelectSeq(list, Other)

\* sqlite3_vfs_find(NULL): the default file system, "none" for a null result
sqlite3_vfs_find(list) == IF list = <<>> THEN "none" ELSE Head(list)

\* sqlite3_vfs_register(v, makeDflt)
sqlite3_vfs_register(list, v, makeDflt) ==
    LET l == vfsUnlink(list, v)
    IN  IF makeDflt \/ l = <<>> THEN <<v>> \o l
        ELSE <<Head(l), v>> \o Tail(l)

\* sqlite3_vfs_unregister(v)
sqlite3_vfs_unregister(list, v) == vfsUnlink(list, v)

(* ---------------------------------------------------------------------- *)
(* State                                                                  *)
(* ---------------------------------------------------------------------- *)
VARIABLES
    sqlite3_module,           \* TRUE when the engine library handle is non-null
    p_sqlite3_vfs_find,       \* TRUE when the entry point is resolved (non-null)
    p_sqlite3_vfs_register,
    p_sqlite3_vfs_unregister,
    vfs_list,                 \* the engine's registered file systems
    g_default_vfs,            \* the delegate: "none", "win32" or "wechat"
    g_encryption_keys,        \* the Key Registry
    files,                    \* the WeChatFile objects the engine holds
    real_allocs,              \* live underlying handle storages (new char[szOsFile])
    disk,                     \* size in bytes of every file on disk
    g_encrypted_buffer,       \* per thread: <<>> (null) or the buffer's layers
    g_decrypted_buffer,
    inflight,                 \* per thread: the registry operation it is inside, or "idle"
    crashed,                  \* the process has faulted
    last                      \* the last call made and what it returned

vars == << sqlite3_module, p_sqlite3_vfs_find, p_sqlite3_vfs_register,
           p_sqlite3_vfs_unregister, vfs_list, g_default_vfs, g_encryption_keys,
           files, real_allocs, disk, g_encrypted_buffer, g_decrypted_buffer,
           inflight, crashed, last >>

engineVars == << sqlite3_module, p_sqlite3_vfs_find, p_sqlite3_vfs_register,
                 p_sqlite3_vfs_unregister, vfs_list, g_default_vfs >>

bufferVars == << g_encrypted_buffer, g_decrypted_buffer >>

\* a WeChatFile the engine has zero-filled or closed: pMethods is null
ClosedFile ==
    [pMethods |-> "null", real_file |-> NoName, path |-> NoName,
     keys |-> NULL, decrypt_cb |-> FALSE]

IsOpen(h) == files[h].pMethods = "wechat_io_methods"

Idle == [op |-> "idle"]

Init ==
    /\ sqlite3_module = FALSE
    /\ p_sqlite3_vfs_find = FALSE
    /\ p_sqlite3_vfs_register = FALSE
    /\ p_sqlite3_vfs_unregister = FALSE
    /\ vfs_list = << "win32" >>
    /\ g_default_vfs = "none"
    /\ g_encryption_keys = << >>
    /\ files = [h \in Handles |-> ClosedFile]
    /\ real_allocs = 0
    /\ disk = [f \in DiskFiles |-> InitialSize(f)]
    /\ g_encrypted_buffer = [t \in Threads |-> << >>]
    /\ g_decrypted_buffer = [t \in Threads |-> << >>]
    /\ inflight = [t \in Threads |-> Idle]
    /\ crashed = FALSE
    /\ last = [op |-> "none", rc |-> SQLITE_OK]

\* a thread may start a call when the process runs and the thread is in no call
CanCall(t) == ~crashed /\ inflight[t].op = "idle"

(* ---------------------------------------------------------------------- *)
(* wechat_vfs_register / wechat_vfs_unregister                             *)
(* ---------------------------------------------------------------------- *)
\* outcomes of the three GetProcAddress calls
AllResolved == [find |-> TRUE, register |-> TRUE, unregister |-> TRUE]
SymbolOutcomes ==
    { AllResolved,
      [find |-> FALSE, register |-> TRUE, unregister |-> TRUE],
      [find |-> TRUE, register |-> FALSE, unregister |-> TRUE],
      [find |-> TRUE, register |-> TRUE, unregister |-> FALSE] }

\* the state wechat_vfs_register leaves and the status it returns; load is the
\* outcome of LoadLibraryA, syms of the GetProcAddress calls; a call through a
\* null entry point faults
wechat_vfs_register_result(load, syms) ==
    LET st0 == [module |-> sqlite3_module, find |-> p_sqlite3_vfs_find,
                register |-> p_sqlite3_vfs_register,
                unregister |-> p_sqlite3_vfs_unregister,
                dflt |-> g_default_vfs, list |-> vfs_list,
                crashed |-> FALSE, rc |-> SQLITE_ERROR]
        st1 == IF sqlite3_module THEN st0
               ELSE [st0 EXCEPT !.module = TRUE, !.find = syms.find,
                                !.register = syms.register,
                                !.unregister = syms.unregister]
    IN  IF ~sqlite3_module /\ ~load THEN st0
        ELSE IF ~sqlite3_module /\ ~(syms.find /\ syms.register /\ syms.unregister)
        THEN st1
        ELSE IF ~st1.find THEN [st1 EXCEPT !.crashed = TRUE]
        ELSE LET d == sqlite3_vfs_find(st1.list)
             IN  IF d = "none" THEN [st1 EXCEPT !.dflt = d]
                 ELSE IF ~st1.register THEN [st1 EXCEPT !.dflt = d, !.crashed = TRUE]
                 ELSE [st1 EXCEPT !.dflt = d,
                                  !.list = sqlite3_vfs_register(st1.list, "wechat", TRUE),
                                  !.rc = SQLITE_OK]

wechat_vfs_register(t, load, syms) ==
    /\ CanCall(t)
    /\ LET r == wechat_vfs_register_result(load, syms)
       IN  /\ sqlite3_module' = r.module
           /\ p_sqlite3_vfs_find' = r.find
           /\ p_sqlite3_vfs_register' = r.register
           /\ p_sqlite3_vfs_unregister' = r.unregister
           /\ g_default_vfs' = r.dflt
           /\ vfs_list' = r.list
           /\ crashed' = r.crashed
           /\ last' = [op |-> "vfs_register", rc |-> r.rc]
    /\ UNCHANGED << g_encryption_keys, files, real_allocs, disk, bufferVars, inflight >>

wechat_vfs_unregister(t) ==
    /\ CanCall(t)
    /\ IF ~p_sqlite3_vfs_unregister
       THEN /\ last' = [op |-> "vfs_unregister", rc |-> SQLITE_ERROR]
            /\ UNCHANGED vfs_list
       ELSE /\ vfs_list' = sqlite3_vfs_unregister(vfs_list, "wechat")
            /\ last' = [op |-> "vfs_unregister", rc |-> SQLITE_OK]
    /\ UNCHANGED << sqlite3_module, p_sqlite3_vfs_find, p_sqlite3_vfs_register,
                    p_sqlite3_vfs_unregister, g_default_vfs, g_encryption_keys,
                    files, real_allocs, disk, bufferVars, inflight, crashed >>

(* ---------------------------------------------------------------------- *)
(* The Key Registry's exported functions                                  *)
(* ---------------------------------------------------------------------- *)
\* the map after g_encryption_keys[normalized] = keys; n is the address of the
\* node when operator[] has to create one
register_keys_map(m, db_path, enc_key_hex, mac_key_hex, n, g) ==
    LET normalized == normalize_path(db_path)
        keys == [encKey |-> hex_to_bytes(enc_key_hex, g),
                 macKey |-> hex_to_bytes(mac_key_hex, g)]
        node == IF normalized \in DOMAIN m THEN m[normalized].node ELSE n
    IN  MapAssign(m, normalized, node, keys)

unregister_keys_map(m, db_path) == MapErase(m, normalize_path(db_path))

get_callback_count_result(m) == MapSize(m)

\* the addresses a new node may get: any that holds no live node
FreeNodes(m) == NodeIds \ MapLiveNodes(m)

wechat_vfs_register_keys_step(db_path, enc_key_hex, mac_key_hex) ==
    /\ \E g \in Indeterminate :
       \E n \in NodeIds :
          /\ normalize_path(db_path) \notin DOMAIN g_encryption_keys
                => n \in FreeNodes(g_encryption_keys)
          /\ normalize_path(db_path) \in DOMAIN g_encryption_keys
                => n = g_encryption_keys[normalize_path(db_path)].node
          /\ g_encryption_keys' =
                register_keys_map(g_encryption_keys, db_path, enc_key_hex, mac_key_hex, n, g)
          /\ last' = [op |-> "register_keys", rc |-> SQLITE_OK, path |-> db_path,
                      enc |-> enc_key_hex, mac |-> mac_key_hex]
    /\ UNCHANGED << engineVars, files, real_allocs, disk, bufferVars, crashed >>

wechat_vfs_register_keys(t, db_path, enc_key_hex, mac_key_hex) ==
    /\ CanCall(t)
    /\ wechat_vfs_register_keys_step(db_path, enc_key_hex, mac_key_hex)
    /\ UNCHANGED inflight

wechat_vfs_unregister_keys_step(db_path) ==
    /\ g_encryption_keys' = unregister_keys_map(g_encryption_keys, db_path)
    /\ last' = [op |-> "unregister_keys", rc |-> SQLITE_OK, path |-> db_path]
    /\ UNCHANGED << engineVars, files, real_allocs, disk, bufferVars, crashed >>

wechat_vfs_unregister_keys(t, db_path) ==
    /\ CanCall(t)
    /\ wechat_vfs_unregister_keys_step(db_path)
    /\ UNCHANGED inflight

wechat_vfs_get_callback_count_step ==
    /\ last' = [op |-> "get_callback_count",
                rc |-> get_callback_count_result(g_encryption_keys)]
    /\ UNCHANGED << engineVars, g_encryption_keys, files, real_allocs, disk,
                    bufferVars, crashed >>

wechat_vfs_get_callback_count(t) ==
    /\ CanCall(t)
    /\ wechat_vfs_get_callback_count_step
    /\ UNCHANGED inflight

(* ---------------------------------------------------------------------- *)
(* wechat_open / wechat_close                                              *)
(* ---------------------------------------------------------------------- *)
\* statuses the delegate's xOpen and xClose may return
OpenStatuses == {SQLITE_OK, SQLITE_CANTOPEN}
CloseStatuses == {SQLITE_OK, SQLITE_IOERR_READ}

\* the engine dispatches to the shim's methods once the shim is registered
ShimInstalled == \E i \in 1..Len(vfs_list) : vfs_list[i] = "wechat"

\* a lookup that skips normalization
open_lookup_raw(m, zName) ==
    IF zName # NoName THEN MapFind(m, zName) ELSE NULL

\* a lookup made for a null name as well (as for the empty path)
open_lookup_nonull(m, zName) == MapFind(m, normalize_path(zName))

\* the Key Record reference wechat_open stores: the node found for the
\* normalized name, null for a null name
open_lookup(m, zName) ==
    IF zName # NoName THEN MapFind(m, normalize_path(zName)) ELSE NULL

\* the WeChatFile after a successful open.  decrypt_cb is read by wechat_read
\* but is not a declared member and no statement of wechat_open assigns it:
\* it holds whatever the engine's memory held (cb)
open_file(m, zName, cb) ==
    [pMethods |-> "wechat_io_methods", real_file |-> DiskFileOf(zName),
     path |-> zName, keys |-> open_lookup(m, zName), decrypt_cb |-> cb]

\* rc is the status of the delegate's xOpen.  When the delegate is the shim
\* itself the call re-enters wechat_open without end and the stack overflows.
wechat_open_step(h, zName, rc, cb) ==
    /\ ShimInstalled
    /\ ~IsOpen(h)
    /\ IF g_default_vfs = "wechat"
       THEN /\ crashed' = TRUE
            /\ last' = [op |-> "open", rc |-> SQLITE_ERROR, h |-> h, zName |-> zName,
                        real_calls |-> << >>]
            /\ UNCHANGED << files, real_allocs >>
       ELSE /\ crashed' = FALSE
            /\ last' = [op |-> "open", rc |-> rc, h |-> h, zName |-> zName,
                        real_calls |-> << "xOpen" >>]
            /\ IF rc # SQLITE_OK
               THEN UNCHANGED << files, real_allocs >>
               ELSE /\ files' = [files EXCEPT ![h] = open_file(g_encryption_keys, zName, cb)]
                    /\ real_allocs' = real_allocs + 1
    /\ UNCHANGED << engineVars, g_encryption_keys, disk, bufferVars >>

wechat_open(t, h, zName, rc, cb) ==
    /\ CanCall(t)
    /\ wechat_open_step(h, zName, rc, cb)
    /\ UNCHANGED inflight

\* a close that forwards xClose and keeps the underlying handle storage
wechat_close_leak(t, h, rc) ==
    /\ CanCall(t)
    /\ IsOpen(h)
    /\ files' = [files EXCEPT ![h] = ClosedFile]
    /\ last' = [op |-> "close", rc |-> rc, h |-> h, real_calls |-> << "xClose" >>]
    /\ UNCHANGED << engineVars, g_encryption_keys, real_allocs, disk, bufferVars,
                    inflight, crashed >>

\* rc is the status of the real file's xClose; the storage of the real file
\* is deleted; the engine then clears pMethods
wechat_close(t, h, rc) ==
    /\ CanCall(t)
    /\ IsOpen(h)
    /\ files' = [files EXCEPT ![h] = ClosedFile]
    /\ real_allocs' = real_allocs - 1
    /\ last' = [op |-> "close", rc |-> rc, h |-> h, real_calls |-> << "xClose" >>]
    /\ UNCHANGED << engineVars, g_encryption_keys, disk, bufferVars, inflight, crashed >>

(* ---------------------------------------------------------------------- *)
(* wechat_write / wechat_truncate / wechat_file_size                       *)
(* ---------------------------------------------------------------------- *)
\* a write that is forwarded to the real file
wechat_write_forward(h, iAmt, iOfst) ==
    [rc |-> SQLITE_OK, real_calls |-> << "xWrite" >>,
     disk |-> real_xWrite(disk, files[h].real_file, iAmt, iOfst)]

wechat_write_result(h, iAmt, iOfst) ==
    [rc |-> SQLITE_READONLY, real_calls |-> << >>, disk |-> disk]

\* a truncate that is forwarded to the real file
wechat_truncate_forward(h, size) ==
    [rc |-> SQLITE_OK, real_calls |-> << "xTruncate" >>,
     disk |-> real_xTruncate(disk, files[h].real_file, size)]

wechat_truncate_result(h, size) ==
    [rc |-> SQLITE_READONLY, real_calls |-> << >>, disk |-> disk]

\* the size wechat_file_size reports: the real file's own
wechat_file_size_result(h) == disk[files[h].real_file]

wechat_write(t, h, iAmt, iOfst) ==
    /\ CanCall(t)
    /\ IsOpen(h)
    /\ LET r == wechat_write_result(h, iAmt, iOfst)
       IN  /\ disk' = r.disk
           /\ last' = [op |-> "write", rc |-> r.rc, h |-> h, real_calls |-> r.real_calls,
                       size_before |-> wechat_file_size_result(h)]
    /\ UNCHANGED << engineVars, g_encryption_keys, files, real_allocs, bufferVars,
                    inflight, crashed >>

wechat_truncate(t, h, size) ==
    /\ CanCall(t)
    /\ IsOpen(h)
    /\ LET r == wechat_truncate_result(h, size)
       IN  /\ disk' = r.disk
           /\ last' = [op |-> "truncate", rc |-> r.rc, h |-> h, real_calls |-> r.real_calls,
                       size_before |-> wechat_file_size_result(h)]
    /\ UNCHANGED << engineVars, g_encryption_keys, files, real_allocs, bufferVars,
                    inflight, crashed >>

wechat_file_size(t, h) ==
    /\ CanCall(t)
    /\ IsOpen(h)
    /\ last' = [op |-> "file_size", rc |-> SQLITE_OK, h |-> h,
                real_calls |-> << "xFileSize" >>, pSize |-> wechat_file_size_result(h)]
    /\ UNCHANGED << engineVars, g_encryption_keys, files, real_allocs, disk, bufferVars,
                    inflight, crashed >>

(* ---------------------------------------------------------------------- *)
(* wechat_read                                                             *)
(* ---------------------------------------------------------------------- *)
\* What the environment does during one read: readFail is the number (from 0)
\* of the underlying xRead of this call that the device fails with readRc
\* (-1: none), aesFail the number of the aes_decrypt_cbc call that fails
\* (-1: none), g the value indeterminate bytes happen to hold.
NoFault == [readFail |-> 0 - 1, readRc |-> SQLITE_OK, aesFail |-> 0 - 1, g |-> 0]

Min(a, b) == IF a < b THEN a ELSE b

\* int offset = (page_num == 0) ? SALT_SIZE : 0
salt_offset_none(page_num) == 0

salt_offset(page_num) == IF page_num = 0 THEN SALT_SIZE ELSE 0

\* an IV taken from the last IV_SIZE bytes of the page
iv_offset_last == PAGE_SIZE - IV_SIZE

\* iv = g_encrypted_buffer + PAGE_SIZE - RESERVE_SIZE
iv_offset == PAGE_SIZE - RESERVE_SIZE

\* int encrypted_len = PAGE_SIZE - RESERVE_SIZE - offset
encrypted_len(offset) == PAGE_SIZE - RESERVE_SIZE - offset

\* a reserve copy that starts at PAGE_SIZE - RESERVE_SIZE whatever the page
reserve_dest_fixed(page_num) == PAGE_SIZE - RESERVE_SIZE

\* where the reserve area is copied to: g_decrypted_buffer + encrypted_len
reserve_dest(page_num) == encrypted_len(salt_offset(page_num))

\* the decrypt branch of the loop body on the page in enc: the new
\* g_decrypted_buffer, whether decryption succeeded, the call made to the
\* Decryption Engine
decrypt_page(page_num, enc, dec, key, aesOk, g) ==
    LET offset == salt_offset(page_num)
        len == encrypted_len(offset)
        call == [page |-> page_num, src_off |-> offset, len |-> len,
                 iv_off |-> iv_offset, key |-> key, ok |-> aesOk]
        plain == WriteLayer(dec, [lo |-> 0, len |-> len, kind |-> "plain", at |-> 0,
                                  src |-> enc, srcoff |-> offset, ivoff |-> iv_offset,
                                  key |-> key])
        withReserve == WriteLayer(plain, [lo |-> reserve_dest(page_num), len |-> RESERVE_SIZE,
                                          kind |-> "memcpy", src |-> enc,
                                          at |-> PAGE_SIZE - RESERVE_SIZE])
        padded == IF page_num = 0
                  THEN WriteLayer(withReserve, [lo |-> len + RESERVE_SIZE, len |-> SALT_SIZE,
                                                kind |-> "zero", at |-> 0])
                  ELSE withReserve
    IN  IF aesOk
        THEN [ok |-> TRUE, dec |-> padded, call |-> call]
        ELSE [ok |-> FALSE, call |-> call,
              dec |-> WriteLayer(dec, [lo |-> 0, len |-> len, kind |-> "uninit", at |-> 0])]

\* the branch for a null keys pointer: memcpy of the whole page
copy_page(enc, dec) ==
    WriteLayer(dec, [lo |-> 0, len |-> PAGE_SIZE, kind |-> "memcpy", src |-> enc,
                     at |-> 0])

\* a copy offset applied on every page
copy_offset_always(page_num, start_page, start_offset) == start_offset

\* int copy_offset = (page_num == start_page) ? start_offset : 0
copy_offset(page_num, start_page, start_offset) ==
    IF page_num = start_page THEN start_offset ELSE 0

\* bytes_to_copy = min(PAGE_SIZE - copy_offset, iAmt - bytes_written)
bytes_to_copy(cofs, iAmt, bytes_written) == Min(PAGE_SIZE - cofs, iAmt - bytes_written)

\* memcpy(output + bytes_written, g_decrypted_buffer + copy_offset, bytes_to_copy)
copy_out(zBuf, bytes_written, dec, cofs, n, g) ==
    [k \in 1..Len(zBuf) |->
        IF bytes_written < k /\ k <= bytes_written + n
        THEN ByteAt(dec, cofs + (k - bytes_written - 1), g)
        ELSE zBuf[k]]

\* a loop that goes on after a short read (the page is zero-filled)
read_aborts_hard(rc) == rc \notin {SQLITE_OK, SQLITE_IOERR_SHORT_READ}

\* if (rc != SQLITE_OK) return rc
read_aborts(rc) == rc # SQLITE_OK

\* a loop that ignores the outcome of the decryption
decrypt_aborts_never(ok) == FALSE

\* if (!aes_decrypt_cbc(...)) return SQLITE_ERROR
decrypt_aborts(ok) == ~ok

\* Every underlying xRead is logged with the status it returned (real_calls),
\* every call to the Decryption Engine with its arguments and outcome (engine).
\* The page loop.  a holds the call's arguments: file, fsize, keys (the
\* pointer), key (the bytes at keys->encKey.data()), iAmt, start_page,
\* end_page, start_offset, env.  s is the loop state.
RECURSIVE read_loop(_, _)
read_loop(a, s) ==
    IF s.page_num > a.end_page THEN [s EXCEPT !.rc = SQLITE_OK]
    ELSE
    LET page_offset == s.page_num * PAGE_SIZE
        forced == IF a.env.readFail = Len(s.real_calls) THEN a.env.readRc ELSE SQLITE_OK
        rc == real_xRead_rc(a.fsize, PAGE_SIZE, page_offset, forced)
        calls == Append(s.real_calls,
                        [op |-> "xRead", iAmt |-> PAGE_SIZE, iOfst |-> page_offset,
                         rc |-> rc])
        enc == IF RealReadFills(rc)
               THEN WriteLayer(s.enc, [lo |-> 0, len |-> PAGE_SIZE, kind |-> "file",
                                       file |-> a.file, fsize |-> a.fsize,
                                       at |-> page_offset])
               ELSE s.enc
    IN  IF read_aborts(rc)
        THEN [s EXCEPT !.rc = rc, !.enc = enc, !.real_calls = calls]
        ELSE
        LET d == IF a.keys = NULL
                 THEN [ok |-> TRUE, dec |-> copy_page(enc, s.dec)]
                 ELSE decrypt_page(s.page_num, enc, s.dec, a.key,
                                   a.env.aesFail # Len(s.engine), a.env.g)
            engine == IF a.keys = NULL THEN s.engine ELSE Append(s.engine, d.call)
        IN  IF decrypt_aborts(d.ok)
            THEN [s EXCEPT !.rc = SQLITE_ERROR, !.enc = enc, !.dec = d.dec,
                           !.real_calls = calls, !.engine = engine]
            ELSE
            LET cofs == copy_offset(s.page_num, a.start_page, a.start_offset)
                n == bytes_to_copy(cofs, a.iAmt, s.bytes_written)
            IN  read_loop(a, [s EXCEPT !.page_num = s.page_num + 1,
                                       !.bytes_written = s.bytes_written + n,
                                       !.zBuf = copy_out(s.zBuf, s.bytes_written, d.dec,
                                                         cofs, n, a.env.g),
                                       !.enc = enc, !.dec = d.dec,
                                       !.real_calls = calls, !.engine = engine])

\* ensure_buffers_allocated on one buffer
ensure_allocated(buf) == IF buf = << >> THEN NewBuffer ELSE buf

\* the request forwarded verbatim to the real file
read_passthrough(p, fsize, enc, dec, iAmt, iOfst, env) ==
    LET forced == IF env.readFail = 0 THEN env.readRc ELSE SQLITE_OK
        rc == real_xRead_rc(fsize, iAmt, iOfst, forced)
    IN  [rc |-> rc, page_num |-> 0, bytes_written |-> 0,
         zBuf |-> [k \in 1..iAmt |->
                     IF RealReadFills(rc)
                     THEN DiskByteOrZero(p.real_file, fsize, iOfst + k - 1)
                     ELSE Untouched],
         enc |-> enc, dec |-> dec,
         real_calls |-> << [op |-> "xRead", iAmt |-> iAmt, iOfst |-> iOfst, rc |-> rc] >>,
         engine |-> << >>]

\* the page translation of the request
read_translated(p, m, fsize, enc, dec, iAmt, iOfst, env) ==
    read_loop([file |-> p.real_file, fsize |-> fsize, keys |-> p.keys,
               key |-> DerefEncKey(m, p.keys), iAmt |-> iAmt,
               start_page |-> iOfst \div PAGE_SIZE,
               end_page |-> (iOfst + iAmt - 1) \div PAGE_SIZE,
               start_offset |-> iOfst % PAGE_SIZE, env |-> env],
              [rc |-> SQLITE_OK, page_num |-> iOfst \div PAGE_SIZE, bytes_written |-> 0,
               zBuf |-> [k \in 1..iAmt |-> Untouched],
               enc |-> ensure_allocated(enc), dec |-> ensure_allocated(dec),
               real_calls |-> << >>, engine |-> << >>])

\* a guard on the keys pointer
read_guard_keys(p) == p.keys = NULL

\* if (!p->decrypt_cb): the request is passed through
read_guard(p) == ~p.decrypt_cb

\* wechat_read on the WeChatFile p
wechat_read_result(p, m, fsize, enc, dec, iAmt, iOfst, env) ==
    IF read_guard(p)
    THEN read_passthrough(p, fsize, enc, dec, iAmt, iOfst, env)
    ELSE read_translated(p, m, fsize, enc, dec, iAmt, iOfst, env)

\* one buffer pair for the whole process
tls_shared(t) == MainThread

\* thread_local: the buffer pair thread t's code refers to is its own
tls(t) == t

wechat_read(t, h, iAmt, iOfst, env) ==
    /\ CanCall(t)
    /\ IsOpen(h)
    /\ LET r == wechat_read_result(files[h], g_encryption_keys, disk[files[h].real_file],
                                   g_encrypted_buffer[tls(t)], g_decrypted_buffer[tls(t)],
                                   iAmt, iOfst, env)
       IN  /\ g_encrypted_buffer' = [g_encrypted_buffer EXCEPT ![tls(t)] = r.enc]
           /\ g_decrypted_buffer' = [g_decrypted_buffer EXCEPT ![tls(t)] = r.dec]
           /\ last' = [op |-> "read", rc |-> r.rc, t |-> t, h |-> h, iAmt |-> iAmt,
                       iOfst |-> iOfst, zBuf |-> r.zBuf,
                       bytes_written |-> r.bytes_written,
                       real_calls |-> r.real_calls, engine |-> r.engine]
    /\ UNCHANGED << engineVars, g_encryption_keys, files, real_allocs, disk,
                    inflight, crashed >>

\* --- wechat_read statement by statement, for reads on several threads ---
\* A thread inside the page loop is at "fetch" (before the xRead of line 202),
\* at "decrypt" (before lines 223-252), at "copy" (before lines 265-272) or at
\* "return".  Its local variables are in inflight[t]; the scratch buffers are
\* the thread's own pair.  overlapped records that another thread was inside
\* wechat_read during the call.
read_begin(t, h, iAmt, iOfst) ==
    /\ CanCall(t)
    /\ IsOpen(h)
    /\ ~read_guard(files[h])
    /\ inflight' = [u \in Threads |->
          IF u # t
          THEN IF inflight[u].op = "read"
               THEN [inflight[u] EXCEPT !.overlapped = TRUE]
               ELSE inflight[u]
          ELSE
          [op |-> "read", h |-> h, iAmt |-> iAmt, iOfst |-> iOfst,
           overlapped |-> \E v \in Threads \ {t} : inflight[v].op = "read",
           start_page |-> iOfst \div PAGE_SIZE,
           end_page |-> (iOfst + iAmt - 1) \div PAGE_SIZE,
           start_offset |-> iOfst % PAGE_SIZE,
           pc |-> "fetch", rc |-> SQLITE_OK, page_num |-> iOfst \div PAGE_SIZE,
           bytes_written |-> 0, zBuf |-> [k \in 1..iAmt |-> Untouched],
           real_calls |-> << >>, engine |-> << >>]]
    /\ g_encrypted_buffer' = [g_encrypted_buffer EXCEPT
                                ![tls(t)] = ensure_allocated(g_encrypted_buffer[tls(t)])]
    /\ g_decrypted_buffer' = [g_decrypted_buffer EXCEPT
                                ![tls(t)] = ensure_allocated(g_decrypted_buffer[tls(t)])]
    /\ UNCHANGED << engineVars, g_encryption_keys, files, real_allocs, disk, crashed, last >>

read_fetch(t) ==
    /\ ~crashed
    /\ inflight[t].op = "read"
    /\ inflight[t].pc = "fetch"
    /\ LET f == inflight[t]
           p == files[f.h]
           page_offset == f.page_num * PAGE_SIZE
           rc == real_xRead_rc(disk[p.real_file], PAGE_SIZE, page_offset, SQLITE_OK)
           calls == Append(f.real_calls,
                           [op |-> "xRead", iAmt |-> PAGE_SIZE, iOfst |-> page_offset,
                            rc |-> rc])
       IN  IF f.page_num > f.end_page
           THEN /\ inflight' = [inflight EXCEPT ![t] = [f EXCEPT !.pc = "return"]]
                /\ UNCHANGED g_encrypted_buffer
           ELSE /\ g_encrypted_buffer' =
                      IF RealReadFills(rc)
                      THEN [g_encrypted_buffer EXCEPT ![tls(t)] =
                              WriteLayer(g_encrypted_buffer[tls(t)],
                                         [lo |-> 0, len |-> PAGE_SIZE, kind |-> "file",
                                          file |-> p.real_file, fsize |-> disk[p.real_file],
                                          at |-> page_offset])]
                      ELSE g_encrypted_buffer
                /\ inflight' = [inflight EXCEPT ![t] =
                      [f EXCEPT !.real_calls = calls,
                                !.rc = rc,
                                !.pc = IF read_aborts(rc) THEN "return" ELSE "decrypt"]]
    /\ UNCHANGED << engineVars, g_encryption_keys, files, real_allocs, disk,
                    g_decrypted_buffer, crashed, last >>

read_decrypt(t) ==
    /\ ~crashed
    /\ inflight[t].op = "read"
    /\ inflight[t].pc = "decrypt"
    /\ LET f == inflight[t]
           p == files[f.h]
           enc == g_encrypted_buffer[tls(t)]
           dec == g_decrypted_buffer[tls(t)]
           d == IF p.keys = NULL
                THEN [ok |-> TRUE, dec |-> copy_page(enc, dec)]
                ELSE decrypt_page(f.page_num, enc, dec,
                                  DerefEncKey(g_encryption_keys, p.keys), TRUE, 0)
           engine == IF p.keys = NULL THEN f.engine ELSE Append(f.engine, d.call)
       IN  /\ g_decrypted_buffer' = [g_decrypted_buffer EXCEPT ![tls(t)] = d.dec]
           /\ inflight' = [inflight EXCEPT ![t] =
                 [f EXCEPT !.engine = engine,
                           !.rc = IF decrypt_aborts(d.ok) THEN SQLITE_ERROR ELSE f.rc,
                           !.pc = IF decrypt_aborts(d.ok) THEN "return" ELSE "copy"]]
    /\ UNCHANGED << engineVars, g_encryption_keys, files, real_allocs, disk,
                    g_encrypted_buffer, crashed, last >>

read_copy(t) ==
    /\ ~crashed
    /\ inflight[t].op = "read"
    /\ inflight[t].pc = "copy"
    /\ LET f == inflight[t]
           cofs == copy_offset(f.page_num, f.start_page, f.start_offset)
           n == bytes_to_copy(cofs, f.iAmt, f.bytes_written)
       IN  inflight' = [inflight EXCEPT ![t] =
              [f EXCEPT !.zBuf = copy_out(f.zBuf, f.bytes_written,
                                          g_decrypted_buffer[tls(t)], cofs, n, 0),
                        !.bytes_written = f.bytes_written + n,
                        !.page_num = f.page_num + 1,
                        !.pc = "fetch"]]
    /\ UNCHANGED << engineVars, g_encryption_keys, files, real_allocs, disk,
                    bufferVars, crashed, last >>

read_return(t) ==
    /\ ~crashed
    /\ inflight[t].op = "read"
    /\ inflight[t].pc = "return"
    /\ last' = [op |-> "read", rc |-> inflight[t].rc, t |-> t, h |-> inflight[t].h,
                iAmt |-> inflight[t].iAmt, iOfst |-> inflight[t].iOfst,
                zBuf |-> inflight[t].zBuf,
                bytes_written |-> inflight[t].bytes_written,
                real_calls |-> inflight[t].real_calls, engine |-> inflight[t].engine,
                overlapped |-> inflight[t].overlapped]
    /\ inflight' = [inflight EXCEPT ![t] = Idle]
    /\ UNCHANGED << engineVars, g_encryption_keys, files, real_allocs, disk,
                    bufferVars, crashed >>

(* ---------------------------------------------------------------------- *)
(* Specifications                                                         *)
(* ---------------------------------------------------------------------- *)
\* "A\B" is what the key manager registers, "a/b" what the engine opens
RegisteredName == <<65, 92, 66>>
OpenedName == <<97, 47, 98>>

\* the requests the engine makes: at the start of the file, across every
\* page boundary in one piece and in two, at the reserve area of page 1 and
\* at the salt padding of page 0
ReadRequests ==
    { [iOfst |-> 0, iAmt |-> 4],
      [iOfst |-> PAGE_SIZE - SALT_SIZE - 4, iAmt |-> 8],
      [iOfst |-> 2 * PAGE_SIZE - RESERVE_SIZE - 4, iAmt |-> 8] }
    \cup { [iOfst |-> k * PAGE_SIZE + PAGE_SIZE - 10, iAmt |-> 20] : k \in 0..(NumPages - 2) }
    \cup { [iOfst |-> k * PAGE_SIZE + PAGE_SIZE - 10, iAmt |-> 10] : k \in 0..(NumPages - 2) }
    \cup { [iOfst |-> k * PAGE_SIZE + PAGE_SIZE, iAmt |-> 10] : k \in 0..(NumPages - 2) }

\* --- the read path: registration, open, read, close on one thread ---
RdRegisterVfs == wechat_vfs_register(MainThread, TRUE, AllResolved)
RdRegisterKeys ==
    wechat_vfs_register_keys(MainThread, RegisteredName, KeyHex1, ShortHex)
RdUnregisterKeys == wechat_vfs_unregister_keys(MainThread, RegisteredName)
RdOpen == \E cb \in BOOLEAN : wechat_open(MainThread, 1, OpenedName, SQLITE_OK, cb)
RdClose == wechat_close(MainThread, 1, SQLITE_OK)
RdRead ==
    \E q \in ReadRequests, g \in Indeterminate :
        wechat_read(MainThread, 1, q.iAmt, q.iOfst, [NoFault EXCEPT !.g = g])

NextRead ==
    \/ RdRegisterVfs
    \/ RdRegisterKeys
    \/ RdUnregisterKeys
    \/ RdOpen
    \/ RdClose
    \/ RdRead

SpecRead == Init /\ [][NextRead]_vars

\* --- the Key Registry and open: the default specification ---
\* key strings that decode the same way on every call
RegistryKeys == {KeyHex1, OddHex}

RegisterVfs == wechat_vfs_register(MainThread, TRUE, AllResolved)
RegisterKeys ==
    \E p \in PathNames, e \in RegistryKeys :
        wechat_vfs_register_keys(MainThread, p, e, ShortHex)
UnregisterKeys == \E p \in PathNames : wechat_vfs_unregister_keys(MainThread, p)
GetCount == wechat_vfs_get_callback_count(MainThread)
Open ==
    \E n \in PathNames \cup {NoName}, rc \in OpenStatuses :
        wechat_open(MainThread, 1, n, rc, FALSE)
Close == \E rc \in CloseStatuses : wechat_close(MainThread, 1, rc)

Next ==
    \/ RegisterVfs
    \/ RegisterKeys
    \/ UnregisterKeys
    \/ GetCount
    \/ Open
    \/ Close

Spec == Init /\ [][Next]_vars

\* --- re-registration followed by open and read ---
RekeyRequests ==
    { [iOfst |-> 0, iAmt |-> 4], [iOfst |-> PAGE_SIZE - 10, iAmt |-> 20] }

RkRegisterVfs == wechat_vfs_register(MainThread, TRUE, AllResolved)
RkRegisterKeys ==
    \E e \in {KeyHex1, KeyHex2} :
        wechat_vfs_register_keys(MainThread, RegisteredName, e, ShortHex)
RkUnregisterKeys == wechat_vfs_unregister_keys(MainThread, RegisteredName)
RkOpen == \E cb \in BOOLEAN : wechat_open(MainThread, 1, OpenedName, SQLITE_OK, cb)
RkClose == wechat_close(MainThread, 1, SQLITE_OK)
RkRead ==
    \E q \in RekeyRequests :
        wechat_read(MainThread, 1, q.iAmt, q.iOfst, [NoFault EXCEPT !.g = 255])

NextRekey ==
    \/ RkRegisterVfs
    \/ RkRegisterKeys
    \/ RkUnregisterKeys
    \/ RkOpen
    \/ RkClose
    \/ RkRead

SpecRekey == Init /\ [][NextRekey]_vars

\* --- the write path: write, truncate and file-size on open files ---
WriteAmounts == {1, PAGE_SIZE}
WriteOffsets == {0, NumPages * PAGE_SIZE}
TruncateSizes == {0, PAGE_SIZE, (NumPages + 1) * PAGE_SIZE}

IoRegisterVfs == wechat_vfs_register(MainThread, TRUE, AllResolved)
IoRegisterKeys == wechat_vfs_register_keys(MainThread, RegisteredName, KeyHex1, ShortHex)
IoOpen ==
    \E h \in Handles, n \in {OpenedName, <<97, 47, 99>>, NoName}, cb \in BOOLEAN :
        wechat_open(MainThread, h, n, SQLITE_OK, cb)
IoClose == \E h \in Handles : wechat_close(MainThread, h, SQLITE_OK)
IoWrite ==
    \E h \in Handles, a \in WriteAmounts, o \in WriteOffsets :
        wechat_write(MainThread, h, a, o)
IoTruncate == \E h \in Handles, z \in TruncateSizes : wechat_truncate(MainThread, h, z)
IoFileSize == \E h \in Handles : wechat_file_size(MainThread, h)

NextIO ==
    \/ IoRegisterVfs
    \/ IoRegisterKeys
    \/ IoOpen
    \/ IoClose
    \/ IoWrite
    \/ IoTruncate
    \/ IoFileSize

SpecIO == Init /\ [][NextIO]_vars

\* --- registration of the shim with the engine ---
VfsRegister ==
    \E load \in BOOLEAN, syms \in SymbolOutcomes :
        wechat_vfs_register(MainThread, load, syms)
VfsUnregister == wechat_vfs_unregister(MainThread)
VfsOpen ==
    \E h \in Handles, n \in {OpenedName, NoName}, rc \in OpenStatuses :
        wechat_open(MainThread, h, n, rc, FALSE)
VfsClose == \E h \in Handles, rc \in CloseStatuses : wechat_close(MainThread, h, rc)

NextVfs ==
    \/ VfsRegister
    \/ VfsUnregister
    \/ VfsOpen
    \/ VfsClose

SpecVfs == Init /\ [][NextVfs]_vars

\* --- the Key Registry under threads ---
\* No statement of the registry functions or of wechat_open takes a lock: a
\* thread that has called one of them is inside the map from its entry to its
\* return, whatever the other threads do.  Two threads inside at once, one of
\* them writing, race: the call then completes or the process faults.
IsWriter(op) == op \in {"register_keys", "unregister_keys"}

Enter(t, call) ==
    /\ CanCall(t)
    /\ inflight' =
          [u \in Threads |->
             IF u = t
             THEN [call EXCEPT !.raced =
                      \E v \in Threads \ {t} :
                         /\ inflight[v].op # "idle"
                         /\ (IsWriter(call.op) \/ IsWriter(inflight[v].op))]
             ELSE IF inflight[u].op # "idle" /\ (IsWriter(call.op) \/ IsWriter(inflight[u].op))
             THEN [inflight[u] EXCEPT !.raced = TRUE]
             ELSE inflight[u]]
    /\ UNCHANGED << engineVars, g_encryption_keys, files, real_allocs, disk, bufferVars,
                    crashed, last >>

CcRegisterVfs == wechat_vfs_register(MainThread, TRUE, AllResolved)

CcEnterRegisterKeys ==
    \E t \in Threads, e \in {KeyHex1, OddHex} :
        Enter(t, [op |-> "register_keys", path |-> RegisteredName, enc |-> e, raced |-> FALSE])

CcEnterUnregisterKeys ==
    \E t \in Threads :
        Enter(t, [op |-> "unregister_keys", path |-> RegisteredName, raced |-> FALSE])

CcEnterGetCount ==
    \E t \in Threads : Enter(t, [op |-> "get_callback_count", raced |-> FALSE])

\* thread t opens with the WeChatFile t
CcEnterOpen ==
    \E t \in Threads \cap Handles :
        /\ ShimInstalled
        /\ ~IsOpen(t)
        /\ Enter(t, [op |-> "open", h |-> t, zName |-> OpenedName, raced |-> FALSE])

CcLeaveRegisterKeys ==
    \E t \in Threads :
        /\ ~crashed
        /\ inflight[t].op = "register_keys"
        /\ wechat_vfs_register_keys_step(inflight[t].path, inflight[t].enc, ShortHex)
        /\ inflight' = [inflight EXCEPT ![t] = Idle]

CcLeaveUnregisterKeys ==
    \E t \in Threads :
        /\ ~crashed
        /\ inflight[t].op = "unregister_keys"
        /\ wechat_vfs_unregister_keys_step(inflight[t].path)
        /\ inflight' = [inflight EXCEPT ![t] = Idle]

CcLeaveGetCount ==
    \E t \in Threads :
        /\ ~crashed
        /\ inflight[t].op = "get_callback_count"
        /\ wechat_vfs_get_callback_count_step
        /\ inflight' = [inflight EXCEPT ![t] = Idle]

CcLeaveOpen ==
    \E t \in Threads :
        /\ ~crashed
        /\ inflight[t].op = "open"
        /\ wechat_open_step(inflight[t].h, inflight[t].zName, SQLITE_OK, TRUE)
        /\ inflight' = [inflight EXCEPT ![t] = Idle]

CcClose == \E t \in Threads \cap Handles : wechat_close(t, t, SQLITE_OK)

\* a raced access faults
CcFault ==
    \E t \in Threads :
        /\ ~crashed
        /\ inflight[t].op # "idle"
        /\ inflight[t].raced
        /\ crashed' = TRUE
        /\ UNCHANGED << engineVars, g_encryption_keys, files, real_allocs, disk,
                        bufferVars, inflight, last >>

NextConc ==
    \/ CcRegisterVfs
    \/ CcEnterRegisterKeys
    \/ CcEnterUnregisterKeys
    \/ CcEnterGetCount
    \/ CcEnterOpen
    \/ CcLeaveRegisterKeys
    \/ CcLeaveUnregisterKeys
    \/ CcLeaveGetCount
    \/ CcLeaveOpen
    \/ CcClose
    \/ CcFault

SpecConc == Init /\ [][NextConc]_vars

\* --- reads that fail: device errors, reads past the end, engine failures ---
\* within page 0, across pages 0 and 1, across the last page and the end of
\* the file
FaultRequests ==
    { [iOfst |-> 0, iAmt |-> 4],
      [iOfst |-> PAGE_SIZE - 10, iAmt |-> 20],
      [iOfst |-> NumPages * PAGE_SIZE - 10, iAmt |-> 20] }

\* at most one fault per call: the device fails the n-th underlying read, or
\* the Decryption Engine fails its n-th call
FaultEnvs ==
    {NoFault}
    \cup { [NoFault EXCEPT !.readFail = n, !.readRc = SQLITE_IOERR_READ] : n \in 0..1 }
    \cup { [NoFault EXCEPT !.aesFail = n] : n \in 0..1 }

FtRegisterVfs ==
    /\ ~ShimInstalled
    /\ wechat_vfs_register(MainThread, TRUE, AllResolved)
FtRegisterKeys ==
    wechat_vfs_register_keys(MainThread, RegisteredName, KeyHex1, ShortHex)
FtOpen == \E cb \in BOOLEAN : wechat_open(MainThread, 1, OpenedName, SQLITE_OK, cb)
FtClose == wechat_close(MainThread, 1, SQLITE_OK)
FtRead ==
    \E q \in FaultRequests, env \in FaultEnvs :
        wechat_read(MainThread, 1, q.iAmt, q.iOfst, env)

NextFault ==
    \/ FtRegisterVfs
    \/ FtRegisterKeys
    \/ FtOpen
    \/ FtClose
    \/ FtRead

SpecFault == Init /\ [][NextFault]_vars

\* --- reads in flight on several threads ---
\* handle h is opened on the h-th file; every file has a Key Record
ThreadFile(h) == IF h = 1 THEN OpenedName ELSE <<97, 47, 99>>

ThreadRequests == { [iOfst |-> PAGE_SIZE - 10, iAmt |-> 20] }

ThRegisterVfs ==
    /\ ~ShimInstalled
    /\ wechat_vfs_register(MainThread, TRUE, AllResolved)
ThRegisterKeys ==
    \E h \in Handles :
        /\ MapFind(g_encryption_keys, normalize_path(ThreadFile(h))) = NULL
        /\ wechat_vfs_register_keys(MainThread, ThreadFile(h),
                                    IF h = 1 THEN KeyHex1 ELSE KeyHex2, ShortHex)
ThOpen ==
    \E h \in Handles :
        /\ \A k \in Handles :
              MapFind(g_encryption_keys, normalize_path(ThreadFile(k))) # NULL
        /\ wechat_open(MainThread, h, ThreadFile(h), SQLITE_OK, TRUE)
ThReadBegin ==
    \E t \in Threads, h \in Handles, q \in ThreadRequests :
        read_begin(t, h, q.iAmt, q.iOfst)
ThReadFetch == \E t \in Threads : read_fetch(t)
ThReadDecrypt == \E t \in Threads : read_decrypt(t)
ThReadCopy == \E t \in Threads : read_copy(t)
ThReadReturn == \E t \in Threads : read_return(t)

NextThreads ==
    \/ ThRegisterVfs
    \/ ThRegisterKeys
    \/ ThOpen
    \/ ThReadBegin
    \/ ThReadFetch
    \/ ThReadDecrypt
    \/ ThReadCopy
    \/ ThReadReturn

SpecThreads == Init /\ [][NextThreads]_vars

\* --- registry calls made while handles are open ---
\* the key manager registers "A\B" and the empty path; the engine opens
\* "a/b" and temporary files (a null name)
EmptyPath == << >>

FrRegisterVfs ==
    /\ ~ShimInstalled
    /\ wechat_vfs_register(MainThread, TRUE, AllResolved)
FrRegisterKeys ==
    \E p \in {RegisteredName, EmptyPath} :
        wechat_vfs_register_keys(MainThread, p, KeyHex1, ShortHex)
FrUnregisterKeys ==
    \E p \in {RegisteredName, EmptyPath} : wechat_vfs_unregister_keys(MainThread, p)
FrOpen ==
    \E h \in Handles, n \in {OpenedName, NoName} :
        wechat_open(MainThread, h, n, SQLITE_OK, FALSE)
FrClose == \E h \in Handles : wechat_close(MainThread, h, SQLITE_OK)
FrRead == \E h \in Handles : wechat_read(MainThread, h, 4, 0, NoFault)

NextFrame ==
    \/ FrRegisterVfs
    \/ FrRegisterKeys
    \/ FrUnregisterKeys
    \/ FrOpen
    \/ FrClose
    \/ FrRead

SpecFrame == Init /\ [][NextFrame]_vars

(* ---------------------------------------------------------------------- *)
(* Reference: the decrypted image of a page, byte by byte                 *)
(* ---------------------------------------------------------------------- *)
\* page k of file f as it lies on disk
RawPage(f, k) ==
    << [lo |-> 0, len |-> PAGE_SIZE, kind |-> "file", file |-> f, fsize |-> disk[f],
        at |-> k * PAGE_SIZE] >>

\* byte i of the decrypted image of page k under key, the IV taken at ivoff:
\* page 0 is plaintext of the bytes after the salt, the reserve, SALT_SIZE
\* zeros; a later page is plaintext of the bytes before the reserve, the reserve
PageImage(f, k, key, ivoff, i, g) ==
    LET usable == IF k = 0 THEN PAGE_SIZE - RESERVE_SIZE - SALT_SIZE
                  ELSE PAGE_SIZE - RESERVE_SIZE
        first == IF k = 0 THEN SALT_SIZE ELSE 0
    IN  IF i < usable THEN aes_plain_byte(RawPage(f, k), first, ivoff, key, i, g)
        ELSE IF i < usable + RESERVE_SIZE
        THEN DiskByte(f, k * PAGE_SIZE + PAGE_SIZE - RESERVE_SIZE + (i - usable))
        ELSE 0

\* the positions of a page the layout claims are checked at: both ends of
\* every region of page 0 and of a later page
PagePositions ==
    { 0, 1, IV_SIZE - 1, IV_SIZE, IV_SIZE + 1, PAGE_SIZE - 1, PAGE_SIZE - 2 }
    \cup { PAGE_SIZE - RESERVE_SIZE - SALT_SIZE + d : d \in {0 - 1, 0, 1} }
    \cup { PAGE_SIZE - RESERVE_SIZE + d : d \in {0 - 1, 0, 1} }
    \cup { PAGE_SIZE - SALT_SIZE + d : d \in {0 - 1, 0, 1} }

LastRead == last.op = "read"

LastCall == last.engine[Len(last.engine)]

\* the key of the well-formed record the read path registers
Key1 == hex_to_bytes(KeyHex1, 0)

InsideFile(h) == last.iOfst + last.iAmt <= disk[files[h].real_file]

(* ---------------------------------------------------------------------- *)
(* C1                                                                     *)
(* ---------------------------------------------------------------------- *)
\* C1: a successful read, inside the file, on a handle opened with a Key
\* Record returns the bytes [offset, offset + amount) of D(0) || D(1) || ...,
\* D(k) the decrypted image of page k under the record's key.
C1_ReadReturnsDecryptedRange ==
    (LastRead /\ last.rc = SQLITE_OK /\ files[last.h].keys # NULL /\ InsideFile(last.h))
    => \A j \in 0..(last.iAmt - 1) :
          last.zBuf[j + 1] =
             PageImage(files[last.h].real_file, (last.iOfst + j) \div PAGE_SIZE, Key1,
                       iv_offset, (last.iOfst + j) % PAGE_SIZE, 0)

WholePage(buf) ==
    /\ \A k \in 1..Len(buf) : buf[k].kind # "uninit"
    /\ buf[1].lo = 0
    /\ buf[Len(buf)].lo + buf[Len(buf)].len = PAGE_SIZE
    /\ \A k \in 1..(Len(buf) - 1) : buf[k].lo + buf[k].len = buf[k + 1].lo

C2_WriteAndTruncateAreRejected ==
    last.op \in {"write", "truncate"}
    => /\ last.rc = SQLITE_READONLY
       /\ last.real_calls = << >>
       /\ wechat_file_size_result(last.h) = last.size_before
       /\ disk = [f \in DiskFiles |-> InitialSize(f)]

\* a write past the end of a keyed, non-empty file has been made
C2_Witness ==
    /\ last.op = "write"
    /\ files[last.h].keys # NULL
    /\ last.size_before = NumPages * PAGE_SIZE

(* ---------------------------------------------------------------------- *)
(* C3                                                                     *)
(* ---------------------------------------------------------------------- *)
\* the bytes [iOfst, iOfst + iAmt) of the file as stored
RawRange(f, iOfst, iAmt) == [k \in 1..iAmt |-> DiskByte(f, iOfst + k - 1)]

\* the same range of the concatenated decrypted page images under key
DecryptedRange(f, key, iOfst, iAmt) ==
    [k \in 1..iAmt |->
        PageImage(f, (iOfst + k - 1) \div PAGE_SIZE, key, iv_offset,
                  (iOfst + k - 1) % PAGE_SIZE, 0)]

\* C3: a successful read on a handle just opened is pass-through when the
\* path's last registry call was unregister_keys (or none), and decrypts
\* with the key of the path's last register_keys otherwise.
C3_OpenFollowsRegistry ==
    [][ ( /\ last.op = "open" /\ last.rc = SQLITE_OK
          /\ last'.op = "read" /\ last'.rc = SQLITE_OK /\ last'.h = last.h )
        => LET k == normalize_path(last.zName)
               f == files[last.h].real_file
           IN  IF k \in DOMAIN g_encryption_keys
               THEN last'.zBuf = DecryptedRange(f, g_encryption_keys[k].encKey,
                                                last'.iOfst, last'.iAmt)
               ELSE /\ files[last.h].keys = NULL
                    /\ last'.zBuf = RawRange(f, last'.iOfst, last'.iAmt)
                    /\ last'.engine = << >> ]_vars

(* ---------------------------------------------------------------------- *)
(* C4                                                                     *)
(* ---------------------------------------------------------------------- *)
AsciiChars == 0..127

\* characters that differ at most in the case of an ASCII letter or in the
\* direction of the separator
SameChar(c, d) ==
    \/ c = d
    \/ {c, d} = {92, 47}
    \/ (c >= 65 /\ c <= 90 /\ d = c + 32)
    \/ (d >= 65 /\ d <= 90 /\ c = d + 32)

SamePath(p, q) ==
    /\ Len(p) = Len(q)
    /\ \A i \in 1..Len(p) : SameChar(p[i], q[i])

C4_NormalizeInv ==
    /\ \A c \in AsciiChars :
          /\ normalize_char(normalize_char(c)) = normalize_char(c)
          /\ \A d \in {c + 32, c - 32, 92, 47} :
                SameChar(c, d) => normalize_char(c) = normalize_char(d)
    /\ \A p \in PathNames :
          /\ normalize_path(normalize_path(p)) = normalize_path(p)
          /\ \A q \in PathNames : SamePath(p, q) => normalize_path(p) = normalize_path(q)

C4_LookupStep ==
    /\ ( /\ last.op = "register_keys"
         /\ last'.op = "open" /\ last'.rc = SQLITE_OK
         /\ SamePath(last.path, last'.zName) )
       => /\ files'[last'.h].keys # NULL
          /\ files'[last'.h].keys = g_encryption_keys[normalize_path(last.path)].node
          /\ DerefEncKey(g_encryption_keys', files'[last'.h].keys)
                = hex_to_bytes(last.enc, 0)
    /\ ( /\ last.op = "register_keys"
         /\ last'.op = "unregister_keys"
         /\ SamePath(last.path, last'.path) )
       => MapFind(g_encryption_keys', normalize_path(last.path)) = NULL

\* C4: normalization is idempotent and maps paths that differ only in ASCII
\* letter case and separator direction to one path; register_keys on one such
\* path followed by open on the other resolves to the record registered, and
\* followed by unregister_keys on the other removes it.
C4_LookupIgnoresCaseAndSeparators ==
    []C4_NormalizeInv /\ [][C4_LookupStep]_vars

\* "A\B" was registered and the file just opened as "a/b" got its record
C4_Witness ==
    /\ last.op = "open" /\ last.rc = SQLITE_OK
    /\ last.zName = <<97, 47, 98>>
    /\ files[last.h].keys # NULL
    /\ DerefEncKey(g_encryption_keys, files[last.h].keys) = hex_to_bytes(OddHex, 0)
    /\ MapSize(g_encryption_keys) = 1

(* ---------------------------------------------------------------------- *)
(* C6                                                                     *)
(* ---------------------------------------------------------------------- *)
\* C6: after a successful register_vfs the shim is the engine's default file
\* system and the delegate is the platform's file system, not the shim.
C6_RegisterVfsIdempotent ==
    (last.op = "vfs_register" /\ last.rc = SQLITE_OK)
    => /\ sqlite3_vfs_find(vfs_list) = "wechat"
       /\ g_default_vfs = "win32"

(* ---------------------------------------------------------------------- *)
(* C7                                                                     *)
(* ---------------------------------------------------------------------- *)
InsideRegistry == { t \in Threads : inflight[t].op # "idle" }

\* C7: no two of register_keys, unregister_keys, open's lookup and
\* get_registered_key_count are inside the registry at the same time.
C7_RegistryMutualExclusion == Cardinality(InsideRegistry) <= 1

(* ---------------------------------------------------------------------- *)
(* C9                                                                     *)
(* ---------------------------------------------------------------------- *)
NormalizedNames == { normalize_path(p) : p \in PathNames }

C9_RegistryInv ==
    /\ DOMAIN g_encryption_keys \subseteq NormalizedNames
    /\ \A k1, k2 \in DOMAIN g_encryption_keys :
          k1 # k2 => g_encryption_keys[k1].node # g_encryption_keys[k2].node
    /\ last.op = "register_keys"
       => /\ normalize_path(last.path) \in DOMAIN g_encryption_keys
          /\ g_encryption_keys[normalize_path(last.path)].encKey = hex_to_bytes(last.enc, 0)
          /\ g_encryption_keys[normalize_path(last.path)].macKey = hex_to_bytes(last.mac, 0)
    /\ last.op = "unregister_keys"
       => normalize_path(last.path) \notin DOMAIN g_encryption_keys
    /\ last.op = "get_callback_count"
       => last.rc = Cardinality({ k \in NormalizedNames : MapFind(g_encryption_keys, k) # NULL })

C9_RegistryStep ==
    /\ last'.op = "register_keys"
       => LET k == normalize_path(last'.path)
          IN  /\ DOMAIN g_encryption_keys' = DOMAIN g_encryption_keys \cup {k}
              /\ \A x \in DOMAIN g_encryption_keys \ {k} :
                    g_encryption_keys'[x] = g_encryption_keys[x]
              /\ ( /\ k \in DOMAIN g_encryption_keys
                   /\ g_encryption_keys[k].encKey = hex_to_bytes(last'.enc, 0)
                   /\ g_encryption_keys[k].macKey = hex_to_bytes(last'.mac, 0) )
                 => g_encryption_keys' = g_encryption_keys
    /\ last'.op = "unregister_keys"
       => LET k == normalize_path(last'.path)
          IN  /\ DOMAIN g_encryption_keys' = DOMAIN g_encryption_keys \ {k}
              /\ \A x \in DOMAIN g_encryption_keys' :
                    g_encryption_keys'[x] = g_encryption_keys[x]
              /\ k \notin DOMAIN g_encryption_keys => g_encryption_keys' = g_encryption_keys
    /\ last'.op \notin {"register_keys", "unregister_keys"}
       => g_encryption_keys' = g_encryption_keys

\* C9: the registry maps each normalized path to at most one record, which
\* holds the keys of the path's last register_keys not followed by an
\* unregister_keys; registering the same path and keys again changes
\* nothing; unregister_keys of an absent path changes nothing; the count is
\* the number of normalized paths registered.
C9_RegistryIsFunction ==
    []C9_RegistryInv /\ [][C9_RegistryStep]_vars

\* a second path has been registered beside a first
C9_Witness ==
    /\ last.op = "register_keys"
    /\ MapSize(g_encryption_keys) = 2
    /\ g_encryption_keys[normalize_path(last.path)].encKey = hex_to_bytes(OddHex, 0)

(* ---------------------------------------------------------------------- *)
(* C11                                                                    *)
(* ---------------------------------------------------------------------- *)
\* the last read went through the page loop
PagedRead == LastRead /\ ~read_guard(files[last.h])

FirstPage == last.iOfst \div PAGE_SIZE

\* the bytes of the request that lie on the pages before page k
BytesBefore(k) == IF k = FirstPage THEN 0 ELSE k * PAGE_SIZE - last.iOfst

\* the caller's buffer holds the decrypted range in its first n bytes and was
\* not written beyond them
BufferHoldsPrefix(n) ==
    \A j \in 1..last.iAmt :
       last.zBuf[j] =
          IF j <= n
          THEN PageImage(files[last.h].real_file, (last.iOfst + j - 1) \div PAGE_SIZE,
                         DerefEncKey(g_encryption_keys, files[last.h].keys), iv_offset,
                         (last.iOfst + j - 1) % PAGE_SIZE, 0)
          ELSE Untouched

\* C11: when, in a keyed read, the underlying read of page k returns a
\* non-success status, the read returns that status; page k is the last page
\* read; page k is not decrypted and none of it is copied; the caller's
\* buffer holds what was copied from the pages before k and nothing else.
C11_ReadErrorAbortsRead ==
    ( /\ PagedRead
      /\ files[last.h].keys # NULL
      /\ \E c \in 1..Len(last.real_calls) : last.real_calls[c].rc # SQLITE_OK )
    => LET n == Len(last.real_calls)
           k == FirstPage + n - 1
       IN  /\ last.real_calls[n].rc # SQLITE_OK
           /\ \A c \in 1..(n - 1) : last.real_calls[c].rc = SQLITE_OK
           /\ last.rc = last.real_calls[n].rc
           /\ \A c \in 1..n :
                 /\ last.real_calls[c].iOfst = (FirstPage + c - 1) * PAGE_SIZE
                 /\ last.real_calls[c].iAmt = PAGE_SIZE
           /\ Len(last.engine) = n - 1
           /\ \A c \in 1..(n - 1) : last.engine[c].page = FirstPage + c - 1
           /\ last.bytes_written = BytesBefore(k)
           /\ BufferHoldsPrefix(BytesBefore(k))

\* the read of the second page of a keyed request ran past the end of the
\* file after the first page was copied
C11_Witness ==
    /\ PagedRead /\ files[last.h].keys # NULL
    /\ Len(last.real_calls) = 2
    /\ last.real_calls[2].rc = SQLITE_IOERR_SHORT_READ
    /\ last.rc = SQLITE_IOERR_SHORT_READ
    /\ last.bytes_written = 10

(* ---------------------------------------------------------------------- *)
(* C12                                                                    *)
(* ---------------------------------------------------------------------- *)
\* C12: when, in a keyed read, the Decryption Engine fails on page k, the
\* read returns SQLITE_ERROR, the engine's generic error; page k is the last
\* page read and the last decrypted, none of it is copied and the caller's
\* buffer holds what was copied from the pages before k.  In every keyed
\* read no page is read twice or decrypted twice, and the status is
\* SQLITE_OK exactly when no underlying read and no decryption failed.
C12_DecryptFailureAbortsRead ==
    (LastRead /\ files[last.h].keys # NULL)
    => /\ \A c, d \in 1..Len(last.real_calls) :
             c # d => last.real_calls[c].iOfst # last.real_calls[d].iOfst
       /\ \A c, d \in 1..Len(last.engine) :
             c # d => last.engine[c].page # last.engine[d].page
       /\ last.rc = SQLITE_OK
             <=> /\ \A c \in 1..Len(last.real_calls) : last.real_calls[c].rc = SQLITE_OK
                 /\ \A c \in 1..Len(last.engine) : last.engine[c].ok
       /\ (\E c \in 1..Len(last.engine) : ~last.engine[c].ok)
          => LET n == Len(last.engine)
                 k == FirstPage + n - 1
             IN  /\ ~last.engine[n].ok
                 /\ \A c \in 1..(n - 1) : last.engine[c].ok
                 /\ last.rc = SQLITE_ERROR
                 /\ Len(last.real_calls) = n
                 /\ \A c \in 1..n :
                       /\ last.real_calls[c].iOfst = (FirstPage + c - 1) * PAGE_SIZE
                       /\ last.engine[c].page = FirstPage + c - 1
                 /\ last.bytes_written = BytesBefore(k)
                 /\ BufferHoldsPrefix(BytesBefore(k))

\* the decryption of the second page of a keyed request failed after the
\* first page was copied
C12_Witness ==
    /\ LastRead /\ files[last.h].keys # NULL
    /\ Len(last.engine) = 2
    /\ last.engine[1].ok /\ ~last.engine[2].ok
    /\ last.rc = SQLITE_ERROR
    /\ last.bytes_written = 10

(* ---------------------------------------------------------------------- *)
(* C13                                                                    *)
(* ---------------------------------------------------------------------- *)
LastPage == (last.iOfst + last.iAmt - 1) \div PAGE_SIZE

\* the pages first..last were read in ascending order, one PAGE_SIZE read at
\* page * PAGE_SIZE each, and exactly the bytes [0, amount) of the caller's
\* buffer were written
VisitsExactlyThePages ==
    /\ Len(last.real_calls) = LastPage - FirstPage + 1
    /\ \A c \in 1..Len(last.real_calls) :
          /\ last.real_calls[c].iAmt = PAGE_SIZE
          /\ last.real_calls[c].iOfst = (FirstPage + c - 1) * PAGE_SIZE
    /\ last.bytes_written = last.iAmt
    /\ Len(last.zBuf) = last.iAmt
    /\ \A j \in 1..last.iAmt : last.zBuf[j] # Untouched

\* C13: a successful keyed read visits exactly the pages offset / PAGE_SIZE
\* .. (offset + amount - 1) / PAGE_SIZE in ascending order, reads each with
\* one PAGE_SIZE read at page * PAGE_SIZE, and on return bytes_written =
\* amount: exactly the bytes [0, amount) of the caller's buffer are written.
C13_LoopVisitsPagesInOrder ==
    (LastRead /\ last.rc = SQLITE_OK /\ files[last.h].keys # NULL)
    => VisitsExactlyThePages

\* the same on the handles whose reads go through the page loop
C13_OnThePagePath ==
    (PagedRead /\ last.rc = SQLITE_OK) => VisitsExactlyThePages

(* ---------------------------------------------------------------------- *)
(* C14                                                                    *)
(* ---------------------------------------------------------------------- *)
OpenHandles == { h \in Handles : IsOpen(h) }

C14_LifecycleInv ==
    /\ \A h \in Handles :
          \/ files[h] = ClosedFile
          \/ /\ IsOpen(h)
             /\ files[h].real_file \in DiskFiles
    /\ real_allocs = Cardinality(OpenHandles)

C14_LifecycleStep ==
    /\ (last'.op = "open" /\ ~crashed' /\ last'.rc # SQLITE_OK)
       => /\ last'.rc \in OpenStatuses
          /\ last'.real_calls = << "xOpen" >>
          /\ files'[last'.h].pMethods = "null"
          /\ files' = files
          /\ real_allocs' = real_allocs
    /\ (last'.op = "open" /\ ~crashed' /\ last'.rc = SQLITE_OK)
       => /\ ~IsOpen(last'.h)
          /\ files'[last'.h].pMethods = "wechat_io_methods"
          /\ last'.real_calls = << "xOpen" >>
          /\ real_allocs' = real_allocs + 1
          /\ \A h \in Handles \ {last'.h} : files'[h] = files[h]
    /\ last'.op = "close"
       => /\ IsOpen(last'.h)
          /\ files'[last'.h].pMethods = "null"
          /\ last'.real_calls = << "xClose" >>
          /\ last'.rc \in CloseStatuses
          /\ real_allocs' = real_allocs - 1
          /\ \A h \in Handles \ {last'.h} : files'[h] = files[h]
    /\ last'.op \notin {"open", "close"}
       => files' = files /\ real_allocs' = real_allocs

\* C14: a handle is closed or open; an open whose delegate fails returns the
\* delegate's status, leaves the handle closed and keeps no underlying
\* storage; a successful open makes the handle open with the shim's methods;
\* close forwards xClose once, returns its status and releases the storage:
\* the live underlying handles are as many as the open handles.
C14_HandleLifecycle ==
    []C14_LifecycleInv /\ [][C14_LifecycleStep]_vars

\* a handle was closed with an error status while the other handle is open
C14_Witness ==
    /\ last.op = "close" /\ last.rc # SQLITE_OK
    /\ Cardinality(OpenHandles) = 1
    /\ real_allocs = 1

(* ---------------------------------------------------------------------- *)
(* C15                                                                    *)
(* ---------------------------------------------------------------------- *)
\* what the last read returns when it runs with no other read in flight
ReadAlone ==
    wechat_read_result(files[last.h], g_encryption_keys, disk[files[last.h].real_file],
                       NewBuffer, NewBuffer, last.iAmt, last.iOfst, NoFault)

\* the threads inside wechat_read
ReadsInFlight == { t \in Threads : inflight[t].op = "read" }

\* C15: two reads in flight at the same time never use the same scratch
\* buffers: the buffers a read works on are written by its own thread only,
\* and under every interleaving a read returns the bytes, the status and
\* makes the calls it makes when run alone.
C15_ReadsDoNotShareBuffers ==
    /\ \A t, u \in ReadsInFlight : t # u => tls(t) # tls(u)
    /\ LastRead
       => /\ last.rc = ReadAlone.rc
          /\ last.zBuf = ReadAlone.zBuf
          /\ last.bytes_written = ReadAlone.bytes_written
          /\ last.real_calls = ReadAlone.real_calls
          /\ last.engine = ReadAlone.engine

\* a read has returned while the other thread, on the other file, is between
\* filling its ciphertext buffer and decrypting it
C15_Witness ==
    /\ LastRead /\ last.rc = SQLITE_OK /\ last.overlapped
    /\ \E u \in ReadsInFlight :
          /\ u # last.t
          /\ inflight[u].h # last.h
          /\ inflight[u].pc = "decrypt"
          /\ inflight[u].page_num = 1

(* ---------------------------------------------------------------------- *)
(* C16                                                                    *)
(* ---------------------------------------------------------------------- *)
\* C16: every Key Record in the registry has an encryption key of exactly
\* AES_KEY_BYTES bytes, whatever hex strings were registered.
C16_EncKeyIs32Bytes ==
    \A k \in DOMAIN g_encryption_keys :
       Len(g_encryption_keys[k].encKey) = AES_KEY_BYTES

(* ---------------------------------------------------------------------- *)
(* C17                                                                    *)
(* ---------------------------------------------------------------------- *)
\* C17: the key reference of every open handle is none or refers to a Key
\* Record that is in the registry.
C17_KeyReferenceIsLive ==
    \A h \in Handles :
       IsOpen(h) =>
          \/ files[h].keys = NULL
          \/ files[h].keys \in MapLiveNodes(g_encryption_keys)

(* ---------------------------------------------------------------------- *)
(* C18                                                                    *)
(* ---------------------------------------------------------------------- *)
C18_NullNameInv ==
    \A h \in Handles : (IsOpen(h) /\ files[h].path = NoName) => files[h].keys = NULL

C18_FrameStep ==
    /\ \A h \in Handles :
          (IsOpen(h) /\ files'[h].pMethods = "wechat_io_methods")
          => /\ files'[h].keys = files[h].keys
             /\ files'[h].path = files[h].path
    /\ (last'.op = "open" /\ last'.rc = SQLITE_OK /\ ~crashed')
       => files'[last'.h].keys =
             IF last'.zName = NoName THEN NULL
             ELSE MapFind(g_encryption_keys, normalize_path(last'.zName))

\* C18: the key reference of a handle is the result of the lookup made at
\* open and no later call changes it while the handle stays open: a handle
\* opened while its path had no Key Record has none until it is closed,
\* whatever is registered afterwards, and a handle opened with a null name
\* never has one.
C18_KeyedStatusFixedAtOpen ==
    []C18_NullNameInv /\ [][C18_FrameStep]_vars

\* register_keys has just registered the path of a handle that was opened
\* without a Key Record and still has none, while a handle opened with a
\* null name is open and the empty path is registered
C18_Witness ==
    /\ last.op = "register_keys"
    /\ \E h \in Handles :
          /\ IsOpen(h) /\ files[h].path = OpenedName /\ files[h].keys = NULL
          /\ MapFind(g_encryption_keys, normalize_path(files[h].path)) # NULL
    /\ \E h \in Handles :
          /\ IsOpen(h) /\ files[h].path = NoName
          /\ MapFind(g_encryption_keys, EmptyPath) # NULL

(* ---------------------------------------------------------------------- *)
(* C19                                                                    *)
(* ---------------------------------------------------------------------- *)
EngineResolved ==
    /\ sqlite3_module
    /\ p_sqlite3_vfs_find /\ p_sqlite3_vfs_register /\ p_sqlite3_vfs_unregister

\* C19: a register_vfs made while the engine library or one of its entry
\* points is unresolved calls through no null entry point, returns
\* SQLITE_ERROR and leaves the engine's default file system as it was; an
\* unregister_vfs made while the unregister entry point is unresolved
\* returns SQLITE_ERROR.
C19_UnresolvedEntryPointNotCalled ==
    /\ (last.op = "vfs_register" /\ ~EngineResolved)
       => /\ ~crashed
          /\ last.rc = SQLITE_ERROR
          /\ sqlite3_vfs_find(vfs_list) = "win32"
    /\ (last.op = "vfs_unregister" /\ ~p_sqlite3_vfs_unregister)
       => last.rc = SQLITE_ERROR

====
